---------------------------- MODULE Spec2Model ----------------------------
(* deepl-json: the cache-and-batch translation run of a JSON tree          *)
(* (main, addEntry, translate, traverseJSON).                              *)
(*                                                                         *)
(* A text is a sequence of tokens.  A token is one literal character       *)
(* ("a", "1"), one whole literal word that matters as a unit               *)
(* ("constructor", "undefined"), one placeholder ("{{name}}") or one       *)
(* literal substring of the marker shape ("<t0/>").  The regular           *)
(* expressions of the program act on tokens: /\{\{.*?\}\}/g matches the    *)
(* placeholder tokens, /<t\d+\/>/g the marker tokens.                      *)
EXTENDS Integers, Sequences, FiniteSets, TLC

VARIABLES
    inputFile,            \* the parsed content of the input file, as read
    inputObj,             \* main's inputObj (arrays in it are updated in place)
    translateProperties,  \* option --properties
    askForConfirmation,   \* option --confirm
    cache,                \* the global cache object
    placeholderMap,       \* the global placeholderMap
    totalChars,           \* the global totalChars
    pc,                   \* where main stands
    keys,                 \* main's keys = Object.keys(cache)
    keyNo,                \* how many passes the batching loop has made
    batches,              \* main's batches
    batchNo,              \* how many batches the for-of loop has finished
    submitted,            \* every list handed to translator.translateText, in order
    outcomes,             \* what the provider did with each of them, in order
    translatedObj,        \* main's translatedObj
    outputFile,           \* the content written to the output file
    error,                \* the error main's promise was rejected with
    confirmAnswer,        \* what the user answered to the prompt, "none" before
    stderr,               \* what console.error has printed
    exitCode              \* the exit status of the process, -1 while it runs

vars == << inputFile, inputObj, translateProperties, askForConfirmation, cache,
           placeholderMap, totalChars, pc, keys, keyNo, batches, batchNo,
           submitted, outcomes, translatedObj, outputFile, error,
           confirmAnswer, stderr, exitCode >>

-----------------------------------------------------------------------------
(* Bounds of the model.                                                    *)

MaxItems == 2

MaxProps == 2

MaxKeys == 100

MaxMarker == 3

\* the batch limit of the loop in main
BatchSize == 49

-----------------------------------------------------------------------------
(* Texts.                                                                  *)

Placeholders == {"{{name}}", "{{user}}"}

Marker(i) == "<t" \o ToString(i) \o "/>"

RECURSIVE CountPlaceholders(_)
CountPlaceholders(text) ==
    IF text = <<>> THEN 0
    ELSE (IF Head(text) \in Placeholders THEN 1 ELSE 0)
             + CountPlaceholders(Tail(text))

\* the tokens that /<t\d+\/>/ matches, as far as a text of the model holds them
MarkerTokens == {Marker(i) : i \in 0..MaxMarker}

IsPlaceholder(tok) == tok \in Placeholders

IsMarker(tok) == tok \in MarkerTokens

RECURSIVE Length(_)
\* text.length
Length(text) ==
    IF text = <<>> THEN 0 ELSE Len(Head(text)) + Length(Tail(text))

\* text.match(/\{\{.*?\}\}/g); the empty sequence stands for null
MatchPlaceholders(text) == SelectSeq(text, IsPlaceholder)

\* text.replace(/\{\{.*?\}\}/g, () => `<t${i++}/>`)
ProcessText(text) ==
    [j \in 1..Len(text) |->
        IF IsPlaceholder(text[j])
        THEN Marker(CountPlaceholders(SubSeq(text, 1, j - 1)))
        ELSE text[j]]

Undefined == [type |-> "undefined", text |-> <<>>]

\* Object.prototype.constructor, what cache['constructor'] evaluates to
FunctionValue == [type |-> "function", text |-> <<>>]

Str(text) == [type |-> "string", text |-> text]

NumberLeaf == [type |-> "number", text |-> <<"7">>]

NullLeaf == [type |-> "null", text |-> <<>>]

Arr(items) == [type |-> "array", items |-> items]

Obj(props) == [type |-> "object", props |-> props]

\* translatedText.replace(/<t\d+\/>/g, () => storedPlaceholders[i++]):
\* the i-th marker becomes storedPlaceholders[i], "undefined" beyond its end
RestoreText(translatedText, storedPlaceholders) ==
    LET MarkersBefore(j) ==
            Len(SelectSeq(SubSeq(translatedText, 1, j - 1), IsMarker))
    IN  [j \in 1..Len(translatedText) |->
            IF IsMarker(translatedText[j])
            THEN IF MarkersBefore(j) < Len(storedPlaceholders)
                 THEN storedPlaceholders[MarkersBefore(j) + 1]
                 ELSE "undefined"
            ELSE translatedText[j]]

-----------------------------------------------------------------------------
(* JavaScript objects: own properties in insertion order, and the          *)
(* properties every {} inherits from Object.prototype.                     *)

\* the inherited property names a text of the model can spell
PrototypeNames == {<<"constructor">>}

DigitTokens == {"0", "1", "2", "3", "4", "5", "6", "7", "8", "9"}

DigitValue(tok) ==
    CASE tok = "0" -> 0 [] tok = "1" -> 1 [] tok = "2" -> 2 [] tok = "3" -> 3
      [] tok = "4" -> 4 [] tok = "5" -> 5 [] tok = "6" -> 6 [] tok = "7" -> 7
      [] tok = "8" -> 8 [] tok = "9" -> 9

\* a property name that is a canonical array index ("0", "2", "12")
IsArrayIndex(key) ==
    /\ key # <<>>
    /\ \A j \in 1..Len(key) : key[j] \in DigitTokens
    /\ (Len(key) > 1 => key[1] # "0")

RECURSIVE IndexValue(_)
IndexValue(key) ==
    IF key = <<>> THEN 0
    ELSE 10 * IndexValue(SubSeq(key, 1, Len(key) - 1))
             + DigitValue(key[Len(key)])

HasOwn(obj, key) == \E n \in 1..Len(obj) : obj[n].key = key

OwnGet(obj, key) ==
    obj[CHOOSE n \in 1..Len(obj) : obj[n].key = key].value

\* obj[key] = value
ObjSet(obj, key, value) ==
    IF HasOwn(obj, key)
    THEN [n \in 1..Len(obj) |->
             IF obj[n].key = key THEN [key |-> key, value |-> value]
             ELSE obj[n]]
    ELSE Append(obj, [key |-> key, value |-> value])

\* obj[key], for an object created by {}
ObjGet(obj, key) ==
    IF HasOwn(obj, key) THEN OwnGet(obj, key)
    ELSE IF key \in PrototypeNames THEN FunctionValue
    ELSE Undefined

RECURSIVE SortByIndex(_)
SortByIndex(names) ==
    IF names = <<>> THEN <<>>
    ELSE LET least == CHOOSE n \in 1..Len(names) :
                          \A m \in 1..Len(names) :
                              IndexValue(names[n]) <= IndexValue(names[m])
         IN  <<names[least]>>
                 \o SortByIndex([n \in 1..(Len(names) - 1) |->
                                    IF n < least THEN names[n]
                                    ELSE names[n + 1]])

\* Object.keys(obj) as if every name were listed in insertion order
ObjectKeysInsertion(obj) == [n \in 1..Len(obj) |-> obj[n].key]

\* Object.keys(obj): array-index names in ascending order first, then the
\* other names in insertion order
ObjectKeys(obj) ==
    LET names == [n \in 1..Len(obj) |-> obj[n].key]
        NotIndex(k) == ~IsArrayIndex(k)
    IN  SortByIndex(SelectSeq(names, IsArrayIndex)) \o SelectSeq(names, NotIndex)

\* !value
Falsy(value) ==
    \/ value.type \in {"undefined", "null"}
    \/ value.type = "string" /\ value.text = <<>>

-----------------------------------------------------------------------------
(* addEntry, translate and traverseJSON.  The globals they read and write  *)
(* travel as ctx = [cache, placeholderMap, totalChars, error]; error is    *)
(* "none" until something throws.                                          *)

\* addEntry without its guard (!text || typeof text !== 'string')
addEntryUnguarded(text, ctx) ==
    LET placeholders == MatchPlaceholders(text)
        processedText == ProcessText(text)
    IN  IF placeholders = <<>>
        THEN IF Falsy(ObjGet(ctx.cache, text))
             THEN [ctx EXCEPT
                      !.totalChars = @ + Length(text),
                      !.cache = ObjSet(@, text, Str(<<>>))]
             ELSE ctx
        ELSE IF Falsy(ObjGet(ctx.cache, processedText))
             THEN [ctx EXCEPT
                      !.totalChars = @ + Length(processedText),
                      !.placeholderMap =
                          ObjSet(@, processedText, placeholders),
                      !.cache = ObjSet(@, processedText, Str(<<>>))]
             ELSE ctx

addEntry(text, ctx) ==
    IF text = <<>> THEN ctx
    ELSE LET placeholders == MatchPlaceholders(text)
             processedText == ProcessText(text)
         IN  IF placeholders = <<>>
             THEN IF Falsy(ObjGet(ctx.cache, text))
                  THEN [ctx EXCEPT
                           !.totalChars = @ + Length(text),
                           !.cache = ObjSet(@, text, Str(<<>>))]
                  ELSE ctx
             ELSE IF Falsy(ObjGet(ctx.cache, processedText))
                  THEN [ctx EXCEPT
                           !.totalChars = @ + Length(processedText),
                           !.placeholderMap =
                               ObjSet(@, processedText, placeholders),
                           !.cache = ObjSet(@, processedText, Str(<<>>))]
                  ELSE ctx

\* the value translate returns, or the error it throws
translate(text, ctx) ==
    IF text = <<>> THEN [ret |-> Str(text), error |-> "none"]
    ELSE
    LET originalPlaceholders == MatchPlaceholders(text)
        processedTextKey ==
            IF originalPlaceholders # <<>> THEN ProcessText(text) ELSE text
        translatedText == ObjGet(ctx.cache, processedTextKey)
    IN  IF translatedText = Undefined
        THEN [ret |-> Undefined, error |-> "EntryNotFound"]
        ELSE IF originalPlaceholders = <<>>
        THEN [ret |-> translatedText, error |-> "none"]
        ELSE IF translatedText.type # "string"
        THEN [ret |-> Undefined, error |-> "TypeError"]
        ELSE IF HasOwn(ctx.placeholderMap, processedTextKey)
        THEN [ret |-> Str(RestoreText(translatedText.text,
                              OwnGet(ctx.placeholderMap, processedTextKey))),
              error |-> "none"]
        ELSE IF \E j \in 1..Len(translatedText.text) :
                    IsMarker(translatedText.text[j])
        THEN [ret |-> Undefined, error |-> "TypeError"]
        ELSE [ret |-> translatedText, error |-> "none"]

\* the property name a value used as newObject[value] turns into
PropertyName(value) ==
    IF value.type = "function"
    THEN <<"function Object() { [native code] }">>
    ELSE value.text

RECURSIVE traverseJSON(_, _, _, _)
RECURSIVE TraverseItems(_, _, _, _, _)
RECURSIVE TraverseProps(_, _, _, _, _, _, _)

\* TraverseItems that stores every result in the first slot
TraverseItemsFirst(items, n, action, properties, ctx) ==
    IF n > Len(items) \/ ctx.error # "none"
    THEN [items |-> items, ctx |-> ctx]
    ELSE LET r == traverseJSON(items[n], action, properties, ctx)
         IN  TraverseItems(
                 [items EXCEPT ![1] =
                     IF r.ctx.error = "none" THEN r.ret ELSE r.inp],
                 n + 1, action, properties, r.ctx)

\* the for loop over an array: items[n] = await traverseJSON(items[n], action)
TraverseItems(items, n, action, properties, ctx) ==
    IF n > Len(items) \/ ctx.error # "none"
    THEN [items |-> items, ctx |-> ctx]
    ELSE LET r == traverseJSON(items[n], action, properties, ctx)
         IN  TraverseItems(
                 [items EXCEPT ![n] =
                     IF r.ctx.error = "none" THEN r.ret ELSE r.inp],
                 n + 1, action, properties, r.ctx)

\* the for loop over Object.keys(jsonObj), filling newObject
TraverseProps(props, names, n, newObject, action, properties, ctx) ==
    IF n > Len(names) \/ ctx.error # "none"
    THEN [newObject |-> newObject, props |-> props, ctx |-> ctx]
    ELSE
    LET key == names[n]
        translatedKey ==
            IF properties THEN translate(key, ctx)
            ELSE [ret |-> Str(key), error |-> "none"]
        r == traverseJSON(OwnGet(props, key), action, properties, ctx)
    IN  IF translatedKey.error # "none"
        THEN [newObject |-> newObject, props |-> props,
              ctx |-> [ctx EXCEPT !.error = translatedKey.error]]
        ELSE TraverseProps(
                 ObjSet(props, key, r.inp), names, n + 1,
                 IF r.ctx.error = "none"
                 THEN ObjSet(newObject, PropertyName(translatedKey.ret), r.ret)
                 ELSE newObject,
                 action, properties, r.ctx)

\* traverseJSON whose translate step stores what it returns in the cache
\* under the text of the leaf
traverseJSONCaching(jsonObj, action, properties, ctx) ==
    CASE jsonObj.type = "array" ->
            LET r == TraverseItems(jsonObj.items, 1, action, properties, ctx)
            IN  [ret |-> Arr(r.items), inp |-> Arr(r.items), ctx |-> r.ctx]
      [] jsonObj.type = "object" ->
            LET r == TraverseProps(jsonObj.props, ObjectKeys(jsonObj.props),
                                   1, <<>>, action, properties, ctx)
            IN  [ret |-> Obj(r.newObject), inp |-> Obj(r.props),
                 ctx |-> r.ctx]
      [] jsonObj.type = "string" ->
            IF action = "addEntry"
            THEN [ret |-> jsonObj, inp |-> jsonObj,
                  ctx |-> addEntry(jsonObj.text, ctx)]
            ELSE LET r == translate(jsonObj.text, ctx)
                 IN  [ret |-> r.ret, inp |-> jsonObj,
                      ctx |-> [ctx EXCEPT
                                  !.error = r.error,
                                  !.cache = IF r.error = "none"
                                            THEN ObjSet(@, jsonObj.text, r.ret)
                                            ELSE @]]
      [] OTHER -> [ret |-> jsonObj, inp |-> jsonObj, ctx |-> ctx]

\* ret: the value returned; inp: jsonObj as the call leaves it (an array is
\* updated in place, an object is rebuilt); ctx: the globals afterwards
traverseJSON(jsonObj, action, properties, ctx) ==
    CASE jsonObj.type = "array" ->
            LET r == TraverseItems(jsonObj.items, 1, action, properties, ctx)
            IN  [ret |-> Arr(r.items), inp |-> Arr(r.items), ctx |-> r.ctx]
      [] jsonObj.type = "object" ->
            LET r == TraverseProps(jsonObj.props, ObjectKeys(jsonObj.props),
                                   1, <<>>, action, properties, ctx)
            IN  [ret |-> Obj(r.newObject), inp |-> Obj(r.props),
                 ctx |-> r.ctx]
      [] jsonObj.type = "string" ->
            IF action = "addEntry"
            THEN [ret |-> jsonObj, inp |-> jsonObj,
                  ctx |-> addEntry(jsonObj.text, ctx)]
            ELSE LET r == translate(jsonObj.text, ctx)
                 IN  [ret |-> r.ret, inp |-> jsonObj,
                      ctx |-> [ctx EXCEPT !.error = r.error]]
      [] OTHER -> [ret |-> jsonObj, inp |-> jsonObj, ctx |-> ctx]

-----------------------------------------------------------------------------
(* The batching loop of main.                                              *)

Max(a, b) == IF a >= b THEN a ELSE b

\* BatchStep with the limit tested by > where the loop tests >=
BatchStepLate(bs, key) ==
    LET batchIdx == Max(Len(bs) - 1, 0)
        created == IF batchIdx + 1 > Len(bs) THEN Append(bs, <<>>) ELSE bs
        pushed == [created EXCEPT ![batchIdx + 1] = Append(@, key)]
    IN  IF Len(pushed[batchIdx + 1]) > BatchSize
        THEN Append(pushed, <<>>)
        ELSE pushed

\* one pass of the body of: for (let i = 0; i < keys.length; i++)
BatchStep(bs, key) ==
    LET batchIdx == Max(Len(bs) - 1, 0)
        created == IF batchIdx + 1 > Len(bs) THEN Append(bs, <<>>) ELSE bs
        pushed == [created EXCEPT ![batchIdx + 1] = Append(@, key)]
    IN  IF Len(pushed[batchIdx + 1]) >= BatchSize
        THEN Append(pushed, <<>>)
        ELSE pushed

-----------------------------------------------------------------------------
(* The translation provider, translator.translateText: not part of the     *)
(* repository.  It answers a list of texts in one of these ways.           *)

ProviderOutcomes ==
    {"verbatim", "dropMarker", "addMarker", "short", "long", "fail"}

TranslateToken(tok) ==
    CASE tok = "a" -> "A"
      [] tok = "k" -> "K"
      [] OTHER -> tok

\* a translation that keeps every marker where it is
TranslateText(text) == [j \in 1..Len(text) |-> TranslateToken(text[j])]

\* text without its last marker
DropLastMarker(text) ==
    LET at == {j \in 1..Len(text) : IsMarker(text[j])}
        last == CHOOSE j \in at : \A m \in at : m <= j
    IN  IF at = {} THEN text
        ELSE [j \in 1..(Len(text) - 1) |->
                 IF j < last THEN text[j] ELSE text[j + 1]]

\* the texts of the response to batch under an outcome other than "fail"
Response(batch, outcome) ==
    LET all == [n \in 1..Len(batch) |-> TranslateText(batch[n])]
    IN  CASE outcome = "verbatim" -> all
          [] outcome = "dropMarker" ->
                [n \in 1..Len(batch) |-> DropLastMarker(all[n])]
          [] outcome = "addMarker" ->
                [n \in 1..Len(batch) |-> Append(all[n], Marker(0))]
          [] outcome = "short" -> SubSeq(all, 1, Len(all) - 1)
          [] outcome = "long" -> Append(all, <<"A">>)

RECURSIVE WriteBack(_, _, _, _)
\* response.map((res, i) => { cache[batch[i]] = res.text; }), from item n on
WriteBack(c, batch, response, n) ==
    IF n > Len(response) THEN c
    ELSE WriteBack(
             ObjSet(c, IF n <= Len(batch) THEN batch[n] ELSE <<"undefined">>,
                    Str(response[n])),
             batch, response, n + 1)

RECURSIVE Stringify(_)
\* what JSON.stringify keeps of a value: a function is dropped from an
\* object and written as null in an array
Stringify(value) ==
    CASE value.type = "array" ->
            Arr([n \in 1..Len(value.items) |->
                    IF value.items[n].type = "function" THEN NullLeaf
                    ELSE Stringify(value.items[n])])
      [] value.type = "object" ->
            LET Kept(k) == OwnGet(value.props, k).type # "function"
                kept == SelectSeq(ObjectKeys(value.props), Kept)
            IN  Obj([n \in 1..Len(kept) |->
                        [key |-> kept[n],
                         value |-> Stringify(OwnGet(value.props, kept[n]))]])
      [] OTHER -> value

NotWritten == [type |-> "nofile", text |-> <<>>]

-----------------------------------------------------------------------------
(* The input files of the model.                                           *)

LeafTexts ==
    { <<>>,                              \* ""
      <<"a">>,                           \* "a"
      <<"a", "{{name}}">>,               \* "a{{name}}"
      <<"a", "{{user}}">>,               \* "a{{user}}"
      <<"<t0/>", "{{name}}">>,           \* "<t0/>{{name}}"
      <<"{{name}}", "a", "{{user}}">>,   \* "{{name}}a{{user}}"
      <<"1", "2">>,                      \* "12"
      <<"2">>,                           \* "2"
      <<"constructor">> }                \* "constructor"

Leaves == {Str(t) : t \in LeafTexts} \cup {NumberLeaf, NullLeaf}

SeqsUpTo(S, n) == UNION {[1..k -> S] : k \in 0..n}

SmallArrays == {Arr(items) : items \in SeqsUpTo(Leaves, MaxItems)}

KeyTexts == { <<"a">>, <<"a", "{{name}}">>, <<"2">>, <<"b">> }

PropValues ==
    { Str(<<"a">>), Str(<<"a", "{{user}}">>), Str(<<"b">>), NumberLeaf,
      Arr(<<Str(<<"a">>), Str(<<"b">>)>>) }

\* objects of 1..MaxProps properties with distinct names
Objects ==
    UNION { { Obj([n \in 1..k |-> [key |-> ks[n], value |-> vs[n]]]) :
                ks \in {q \in [1..k -> KeyTexts] :
                           \A m, n \in 1..k : m # n => q[m] # q[n]},
                vs \in [1..k -> PropValues] } : k \in 1..MaxProps }

\* an array of leaves and objects of one property
MixedArrays ==
    { Arr(<<l, Obj(<<[key |-> k, value |-> v]>>)>>) :
        l \in {Str(<<"a">>), Str(<<"<t0/>">>), Str(<<"a", "{{user}}">>)},
        k \in KeyTexts, v \in PropValues }

\* ["k1", "k2", ..., "kK"]
FlatArray(K) == Arr([n \in 1..K |-> Str(<<"k", ToString(n)>>)])

\* flat arrays that take two and three batches
LongArrays == {FlatArray(K) : K \in {BatchSize, BatchSize + 1, 2 * BatchSize}}

InitWith(file, properties, confirmation) ==
    /\ inputFile = file
    /\ inputObj = file
    /\ translateProperties = properties
    /\ askForConfirmation = confirmation
    /\ cache = <<>>
    /\ placeholderMap = <<>>
    /\ totalChars = 0
    /\ pc = "collect"
    /\ keys = <<>>
    /\ keyNo = 0
    /\ batches = <<>>
    /\ batchNo = 0
    /\ submitted = <<>>
    /\ outcomes = <<>>
    /\ translatedObj = Undefined
    /\ outputFile = NotWritten
    /\ error = "none"
    /\ confirmAnswer = "none"
    /\ stderr = <<>>
    /\ exitCode = -1

Init ==
    \/ \E file \in SmallArrays \cup Objects \cup MixedArrays,
          properties \in BOOLEAN, confirmation \in BOOLEAN :
            InitWith(file, properties, confirmation)
    \/ \E file \in LongArrays : InitWith(file, FALSE, FALSE)

-----------------------------------------------------------------------------
(* main, from one await that leaves the program to the next.               *)

Globals == [cache |-> cache, placeholderMap |-> placeholderMap,
            totalChars |-> totalChars, error |-> "none"]

\* main(options).catch(console.error): when main's promise is rejected the
\* error is printed; the process then ends as it does when main returns, with
\* exit status 0
TopLevel ==
    /\ stderr' = IF pc' = "failed" THEN Append(stderr, error') ELSE stderr
    /\ exitCode' = IF pc' \in {"failed", "returned", "done"} THEN 0
                   ELSE exitCode

\* await traverseJSON(inputObj, addEntry), up to the prompt
Collect ==
    /\ pc = "collect"
    /\ LET r == traverseJSON(inputObj, "addEntry", translateProperties, Globals)
       IN  /\ inputObj' = r.inp
           /\ cache' = r.ctx.cache
           /\ placeholderMap' = r.ctx.placeholderMap
           /\ totalChars' = r.ctx.totalChars
           /\ error' = r.ctx.error
           /\ pc' = IF r.ctx.error # "none" THEN "failed"
                    ELSE IF askForConfirmation THEN "confirm"
                    ELSE "batch"
    /\ UNCHANGED << inputFile, keys, keyNo, translateProperties, askForConfirmation,
                    batches, batchNo, submitted, outcomes, translatedObj,
                    outputFile >>
    /\ UNCHANGED confirmAnswer
    /\ TopLevel

\* Confirm without if (!answer) return
ConfirmIgnored ==
    /\ pc = "confirm"
    /\ \E answer \in BOOLEAN :
          /\ confirmAnswer' = IF answer THEN "yes" ELSE "no"
          /\ pc' = "batch"
    /\ UNCHANGED << inputFile, keys, keyNo, inputObj, translateProperties,
                    askForConfirmation, cache, placeholderMap, totalChars,
                    batches, batchNo, submitted, outcomes, translatedObj,
                    outputFile, error >>
    /\ TopLevel

\* const answer = await prompt.run(); if (!answer) return;
Confirm ==
    /\ pc = "confirm"
    /\ \E answer \in BOOLEAN :
          /\ confirmAnswer' = IF answer THEN "yes" ELSE "no"
          /\ pc' = IF answer THEN "batch" ELSE "returned"
    /\ UNCHANGED << inputFile, keys, keyNo, inputObj, translateProperties,
                    askForConfirmation, cache, placeholderMap, totalChars,
                    batches, batchNo, submitted, outcomes, translatedObj,
                    outputFile, error >>
    /\ TopLevel

\* const keys = Object.keys(cache); let batches = [];
StartBatches ==
    /\ pc = "batch"
    /\ keys' = ObjectKeys(cache)
    /\ keyNo' = 0
    /\ batches' = <<>>
    /\ pc' = IF keys' = <<>> THEN "reconstruct" ELSE "batching"
    /\ UNCHANGED << inputFile, inputObj, translateProperties,
                    askForConfirmation, cache, placeholderMap, totalChars,
                    batchNo, submitted, outcomes, translatedObj, outputFile,
                    error >>
    /\ UNCHANGED confirmAnswer
    /\ TopLevel

\* one pass of the loop that fills batches
BatchPass ==
    /\ pc = "batching"
    /\ batches' = BatchStep(batches, keys[keyNo + 1])
    /\ keyNo' = keyNo + 1
    /\ pc' = IF keyNo' = Len(keys) THEN "submit" ELSE "batching"
    /\ UNCHANGED << inputFile, inputObj, translateProperties,
                    askForConfirmation, cache, placeholderMap, totalChars,
                    keys, batchNo, submitted, outcomes, translatedObj,
                    outputFile, error >>
    /\ UNCHANGED confirmAnswer
    /\ TopLevel

\* Submit without the await: every batch that is left is sent at once
SubmitAll ==
    /\ pc = "submit"
    /\ submitted' = submitted \o SubSeq(batches, batchNo + 1, Len(batches))
    /\ pc' = "awaiting"
    /\ UNCHANGED << inputFile, keys, keyNo, inputObj, translateProperties,
                    askForConfirmation, cache, placeholderMap, totalChars,
                    batches, batchNo, outcomes, translatedObj, outputFile,
                    error >>
    /\ UNCHANGED confirmAnswer
    /\ TopLevel

\* the call translator.translateText(batch, ...) for the next batch
Submit ==
    /\ pc = "submit"
    /\ submitted' = Append(submitted, batches[batchNo + 1])
    /\ pc' = "awaiting"
    /\ UNCHANGED << inputFile, keys, keyNo, inputObj, translateProperties,
                    askForConfirmation, cache, placeholderMap, totalChars,
                    batches, batchNo, outcomes, translatedObj, outputFile,
                    error >>
    /\ UNCHANGED confirmAnswer
    /\ TopLevel

\* the call returns, and response.map writes the texts into the cache
Respond ==
    /\ pc = "awaiting"
    /\ \E outcome \in ProviderOutcomes \ {"fail"} :
          /\ outcome = "short" => batches[batchNo + 1] # <<>>
          /\ outcomes' = Append(outcomes, outcome)
          /\ cache' = WriteBack(cache, batches[batchNo + 1],
                                Response(batches[batchNo + 1], outcome), 1)
    /\ batchNo' = batchNo + 1
    /\ pc' = IF batchNo' = Len(batches) THEN "reconstruct" ELSE "submit"
    /\ UNCHANGED << inputFile, keys, keyNo, inputObj, translateProperties,
                    askForConfirmation, placeholderMap, totalChars, batches,
                    submitted, translatedObj, outputFile, error >>
    /\ UNCHANGED confirmAnswer
    /\ TopLevel

\* ProviderFails with the error caught inside the loop, which goes on
ProviderFailsSkipped ==
    /\ pc = "awaiting"
    /\ outcomes' = Append(outcomes, "fail")
    /\ batchNo' = batchNo + 1
    /\ pc' = IF batchNo' = Len(batches) THEN "reconstruct" ELSE "submit"
    /\ UNCHANGED << inputFile, keys, keyNo, inputObj, translateProperties,
                    askForConfirmation, cache, placeholderMap, totalChars,
                    batches, submitted, translatedObj, outputFile, error >>
    /\ UNCHANGED confirmAnswer
    /\ TopLevel

\* the call throws
ProviderFails ==
    /\ pc = "awaiting"
    /\ outcomes' = Append(outcomes, "fail")
    /\ error' = "ProviderError"
    /\ pc' = "failed"
    /\ UNCHANGED << inputFile, keys, keyNo, inputObj, translateProperties,
                    askForConfirmation, cache, placeholderMap, totalChars,
                    batches, batchNo, submitted, translatedObj, outputFile >>
    /\ UNCHANGED confirmAnswer
    /\ TopLevel

\* const translatedObj = await traverseJSON(inputObj, translate)
Reconstruct ==
    /\ pc = "reconstruct"
    /\ LET r == traverseJSON(inputObj, "translate", translateProperties, Globals)
       IN  /\ inputObj' = r.inp
           /\ cache' = r.ctx.cache
           /\ placeholderMap' = r.ctx.placeholderMap
           /\ totalChars' = r.ctx.totalChars
           /\ error' = r.ctx.error
           /\ translatedObj' =
                  IF r.ctx.error = "none" THEN r.ret ELSE translatedObj
           /\ pc' = IF r.ctx.error # "none" THEN "failed" ELSE "write"
    /\ UNCHANGED << inputFile, keys, keyNo, translateProperties, askForConfirmation,
                    batches, batchNo, submitted, outcomes, outputFile >>
    /\ UNCHANGED confirmAnswer
    /\ TopLevel

\* fs.writeFileSync(outputFileName, JSON.stringify(translatedObj))
WriteOutput ==
    /\ pc = "write"
    /\ outputFile' = Stringify(translatedObj)
    /\ pc' = "done"
    /\ UNCHANGED << inputFile, keys, keyNo, inputObj, translateProperties,
                    askForConfirmation, cache, placeholderMap, totalChars,
                    batches, batchNo, submitted, outcomes, translatedObj,
                    error >>
    /\ UNCHANGED confirmAnswer
    /\ TopLevel

Next ==
    \/ Collect
    \/ Confirm
    \/ StartBatches
    \/ BatchPass
    \/ Submit
    \/ Respond
    \/ ProviderFails
    \/ Reconstruct
    \/ WriteOutput

Spec == Init /\ [][Next]_vars

\* the batching loop alone, over [], ["k1"], ..., ["k1", ..., "kMaxKeys"]
InitBatch == \E K \in 0..MaxKeys : InitWith(FlatArray(K), FALSE, FALSE)

NextBatch == Collect \/ StartBatches \/ BatchPass

SpecBatch == InitBatch /\ [][NextBatch]_vars

-----------------------------------------------------------------------------
(* What the claims speak of.                                               *)

RECURSIVE LeavesOf(_)
\* the leaves of a value, in the order traverseJSON visits them
LeavesOf(value) ==
    CASE value.type = "array" ->
            LET Flat[n \in 0..Len(value.items)] ==
                    IF n = 0 THEN <<>>
                    ELSE Flat[n - 1] \o LeavesOf(value.items[n])
            IN  Flat[Len(value.items)]
      [] value.type = "object" ->
            LET names == ObjectKeys(value.props)
                Flat[n \in 0..Len(names)] ==
                    IF n = 0 THEN <<>>
                    ELSE Flat[n - 1] \o LeavesOf(OwnGet(value.props, names[n]))
            IN  Flat[Len(names)]
      [] OTHER -> <<value>>

InputLeaves == LeavesOf(inputFile)

\* the non-empty string leaves of the input file
InputTexts ==
    {InputLeaves[n].text :
        n \in {m \in 1..Len(InputLeaves) :
                  InputLeaves[m].type = "string" /\ InputLeaves[m].text # <<>>}}

\* the translation-safe key of a text
KeyOf(text) == ProcessText(text)

\* how often key stands in the lists handed to the provider
TimesSubmitted(key) ==
    LET Count[n \in 0..Len(submitted)] ==
            IF n = 0 THEN 0
            ELSE Count[n - 1]
                     + Len(SelectSeq(submitted[n], LAMBDA k : k = key))
    IN  Count[Len(submitted)]

\* every batch has been answered and the batch loop has ended
AllAnswered == pc \in {"reconstruct", "write", "done"}

AllVerbatim == \A n \in 1..Len(outcomes) : outcomes[n] = "verbatim"

RECURSIVE PropertyNamesOf(_)
\* the property names of the objects in a value
PropertyNamesOf(value) ==
    CASE value.type = "array" ->
            UNION {PropertyNamesOf(value.items[n]) : n \in 1..Len(value.items)}
      [] value.type = "object" ->
            {value.props[n].key : n \in 1..Len(value.props)}
                \cup UNION {PropertyNamesOf(value.props[n].value) :
                               n \in 1..Len(value.props)}
      [] OTHER -> {}

\* a provider response has written a text for key into the cache
Resolved(key) ==
    \E n \in 1..Len(outcomes) :
        /\ outcomes[n] # "fail"
        /\ \E i \in 1..Len(submitted[n]) :
              /\ submitted[n][i] = key
              /\ i <= Len(Response(submitted[n], outcomes[n]))

\* a response had another number of items than its batch
LengthMismatch == \E n \in 1..Len(outcomes) : outcomes[n] \in {"short", "long"}

CountMarkers(text) == Len(SelectSeq(text, IsMarker))

RECURSIVE SumLengths(_)
SumLengths(names) ==
    IF names = <<>> THEN 0
    ELSE Length(Head(names)) + SumLengths(Tail(names))

\* batches, concatenated in order
Concatenated(bs) ==
    LET Flat[n \in 0..Len(bs)] ==
            IF n = 0 THEN <<>> ELSE Flat[n - 1] \o bs[n]
    IN  Flat[Len(bs)]

\* the batching loop has ended and nothing has been sent yet
BatchesBuilt ==
    \/ pc = "submit" /\ batchNo = 0
    \/ pc = "reconstruct" /\ keys = <<>> /\ submitted = <<>>

-----------------------------------------------------------------------------
(* The claims.                                                             *)

\* C1: in a complete run without key translation in which the provider
\* returns every marker verbatim, every string leaf of the output carries the
\* placeholders its own input leaf had, in the same order.
C1_OwnPlaceholders ==
    (pc = "done" /\ ~translateProperties /\ AllVerbatim) =>
        /\ Len(LeavesOf(translatedObj)) = Len(InputLeaves)
        /\ \A n \in 1..Len(InputLeaves) :
              InputLeaves[n].type = "string" =>
                  MatchPlaceholders(LeavesOf(translatedObj)[n].text)
                      = MatchPlaceholders(InputLeaves[n].text)

\* C2: round trip of the codec: once addEntry has recorded a text's key and
\* placeholders, restoring the markers of the key from the record gives the
\* text back.
C2_RoundTrip ==
    pc # "collect" =>
        \A t \in InputTexts :
            (/\ HasOwn(placeholderMap, KeyOf(t))
             /\ OwnGet(placeholderMap, KeyOf(t)) = MatchPlaceholders(t))
            => RestoreText(KeyOf(t), OwnGet(placeholderMap, KeyOf(t))) = t

\* C3: once every batch is answered, the key of every non-empty string leaf
\* of the input has been handed to the provider exactly once.
C3_SubmittedOnce ==
    AllAnswered => \A t \in InputTexts : TimesSubmitted(KeyOf(t)) = 1

\* C4: the batching loop leaves ceil(K/49) batches for K keys, none of them
\* empty.
C4_BatchCount ==
    BatchesBuilt =>
        /\ Len(batches) = (Len(keys) + BatchSize - 1) \div BatchSize
        /\ \A b \in 1..Len(batches) : batches[b] # <<>>

\* C5: the batching loop leaves batches of at most 49 keys whose
\* concatenation is Object.keys(cache).
C5_BatchesPartitionKeys ==
    BatchesBuilt =>
        /\ \A b \in 1..Len(batches) : Len(batches[b]) <= BatchSize
        /\ Concatenated(batches) = ObjectKeys(cache)
        /\ \A m, n \in 1..Len(keys) : m # n => keys[m] # keys[n]

\* C5's case: the loop has ended over keys that take more than one batch
C5_Witness ==
    /\ BatchesBuilt
    /\ Len(keys) > BatchSize
    /\ Len(batches) >= 2
    /\ Len(batches[1]) = BatchSize

\* C6: a response with another number of items than its batch ends the run
\* in an error, and no output file is written.
C6_MismatchIsFatal ==
    LengthMismatch => (pc = "failed" /\ outputFile = NotWritten)

\* C7: when Reconstruct has returned a tree, the translated text of every
\* leaf with placeholders holds as many markers as there are placeholders
\* stored for its key (a mismatch would have been raised as an error).
C7_MarkerMismatchRaised ==
    pc \in {"write", "done"} =>
        \A t \in InputTexts :
            MatchPlaceholders(t) # <<>> =>
                CountMarkers(ObjGet(cache, KeyOf(t)).text)
                    = Len(OwnGet(placeholderMap, KeyOf(t)))

\* C8: with key translation enabled, the Collect pass completes and leaves
\* every non-empty property name of the input recorded in the cache.
C8_PropertyNamesCollected ==
    [][(pc = "collect" /\ translateProperties) =>
          /\ pc' # "failed"
          /\ \A k \in PropertyNamesOf(inputFile) \ {<<>>} :
                HasOwn(cache', KeyOf(k))]_vars

\* C9: after the Collect pass totalChars is the sum of the lengths of the
\* distinct keys in the cache.
C9_TotalCharsCountsKeysOnce ==
    pc \in {"confirm", "batch"} => totalChars = SumLengths(ObjectKeys(cache))

\* C10: when Reconstruct has returned a tree, every key that addEntry had
\* inserted and that Reconstruct looked up had been resolved by a provider
\* response (a lookup of a still unresolved key would have raised the
\* missing-cache-entry error instead of returning the unresolved value).
C10_UnresolvedLookupFails ==
    pc \in {"write", "done"} =>
        \A t \in InputTexts :
            HasOwn(cache, KeyOf(t)) => Resolved(KeyOf(t))

\* a provider call has thrown
SomeCallFailed == \E n \in 1..Len(outcomes) : outcomes[n] = "fail"

\* C11: all or nothing: when a provider call fails the run is aborted, the
\* failed call is the last one made (no later batch is sent, the failed
\* batch is not sent again) and no output file is written; an output file
\* exists only when every batch has received a response.
C11_AllOrNothing ==
    /\ SomeCallFailed =>
          /\ pc = "failed"
          /\ outputFile = NotWritten
          /\ Len(submitted) = Len(outcomes)
          /\ \A n \in 1..Len(outcomes) :
                outcomes[n] = "fail" <=> n = Len(outcomes)
          /\ \A n \in 1..Len(submitted) : submitted[n] = batches[n]
    /\ outputFile # NotWritten =>
          /\ Len(outcomes) = Len(batches)
          /\ ~SomeCallFailed

\* C11's case: a call has failed while a later batch was still to be sent
C11_Witness ==
    /\ SomeCallFailed
    /\ pc = "failed"
    /\ Len(submitted) < Len(batches)

\* C12: an error raised inside main (a failed provider call, a missing cache
\* entry) is printed at the top level and the process ends with a non-zero
\* exit status.
C12_ErrorsExitNonZero ==
    pc = "failed" =>
        /\ error # "none"
        /\ stderr = <<error>>
        /\ exitCode > 0

\* the response to batch n has been written into the cache, item by item
Written(n) ==
    LET response == Response(batches[n], outcomes[n])
    IN  \A i \in 1..Len(response) :
            OwnGet(cache, IF i <= Len(batches[n]) THEN batches[n][i]
                          ELSE <<"undefined">>) = Str(response[i])

\* C13: the batches are sent one at a time in the order of the partition:
\* at most one call is outstanding, and when batch n is sent every earlier
\* batch has been answered and its response written into the cache.
C13_OneCallAtATime ==
    /\ Len(submitted) - Len(outcomes) \in {0, 1}
    /\ Len(submitted) = Len(outcomes) + 1 <=> pc = "awaiting"
    /\ Len(submitted) <= Len(batches)
    /\ \A n \in 1..Len(submitted) :
          /\ submitted[n] = batches[n]
          /\ \A m \in 1..(n - 1) : outcomes[m] # "fail" /\ Written(m)

\* C13's case: the second batch is out, the first one answered
C13_Witness ==
    /\ pc = "awaiting"
    /\ Len(submitted) = 2
    /\ Len(outcomes) = 1
    /\ submitted[1] # <<>>

\* every call has been answered with as many items as its batch had
SameLength ==
    \A n \in 1..Len(outcomes) :
        outcomes[n] \in {"verbatim", "dropMarker", "addMarker"}

\* the value the cache entry of key gives for a leaf with text t: the entry
\* itself, with the placeholders stored for key put back where t has any
RestoredEntry(t, key) ==
    IF MatchPlaceholders(t) = <<>> THEN OwnGet(cache, key)
    ELSE Str(RestoreText(OwnGet(cache, key).text,
                         OwnGet(placeholderMap, key)))

\* C14: when every batch is answered with a list of its own length, every
\* cache key holds the response item at the position the key had in its
\* batch, every non-empty string leaf of the output is the
\* placeholder-restored cache entry of the leaf's key, and leaves with the
\* same input text get the same output.
C14_OutputIsCachedTranslation ==
    (pc \in {"write", "done"} /\ SameLength) =>
        /\ \A n \in 1..Len(batches) : \A i \in 1..Len(batches[n]) :
              /\ HasOwn(cache, batches[n][i])
              /\ OwnGet(cache, batches[n][i])
                     = Str(Response(batches[n], outcomes[n])[i])
        /\ \A k \in 1..Len(cache) :
              \E n \in 1..Len(batches) : \E i \in 1..Len(batches[n]) :
                  batches[n][i] = cache[k].key
        /\ Len(LeavesOf(translatedObj)) = Len(InputLeaves)
        /\ \A n \in 1..Len(InputLeaves) :
              (InputLeaves[n].type = "string" /\ InputLeaves[n].text # <<>>) =>
                  /\ HasOwn(cache, KeyOf(InputLeaves[n].text))
                  /\ LeavesOf(translatedObj)[n]
                         = RestoredEntry(InputLeaves[n].text,
                                         KeyOf(InputLeaves[n].text))
        /\ \A m, n \in 1..Len(InputLeaves) :
              InputLeaves[m] = InputLeaves[n] =>
                  LeavesOf(translatedObj)[m] = LeavesOf(translatedObj)[n]

\* a leaf that is no string, or the empty string
PassThrough(leaf) == leaf.type # "string" \/ leaf.text = <<>>

RECURSIVE PassThroughKept(_, _)
\* out has the shape of in, and every pass-through leaf of in stands
\* unchanged at the same place of out
PassThroughKept(in, out) ==
    CASE in.type = "array" ->
            /\ out.type = "array"
            /\ Len(out.items) = Len(in.items)
            /\ \A n \in 1..Len(in.items) :
                  PassThroughKept(in.items[n], out.items[n])
      [] in.type = "object" ->
            /\ out.type = "object"
            /\ Len(out.props) = Len(in.props)
            /\ ~translateProperties =>
                  ObjectKeys(out.props) = ObjectKeys(in.props)
            /\ \A n \in 1..Len(in.props) :
                  PassThroughKept(
                      OwnGet(in.props, ObjectKeys(in.props)[n]),
                      OwnGet(out.props, ObjectKeys(out.props)[n]))
      [] OTHER -> PassThrough(in) => out = in

RECURSIVE DeepEqual(_, _)
\* deep equality of two values: arrays item by item in order, objects
\* property by property whatever the order of the names
DeepEqual(a, b) ==
    CASE a.type = "array" ->
            /\ b.type = "array"
            /\ Len(b.items) = Len(a.items)
            /\ \A n \in 1..Len(a.items) : DeepEqual(a.items[n], b.items[n])
      [] a.type = "object" ->
            /\ b.type = "object"
            /\ Len(b.props) = Len(a.props)
            /\ \A n \in 1..Len(a.props) :
                  /\ HasOwn(b.props, a.props[n].key)
                  /\ DeepEqual(a.props[n].value,
                               OwnGet(b.props, a.props[n].key))
      [] OTHER -> b = a

C17_DeclineStopsRun ==
    confirmAnswer = "no" =>
        /\ pc = "returned"
        /\ batches = <<>>
        /\ submitted = <<>>
        /\ outcomes = <<>>
        /\ \A n \in 1..Len(cache) : cache[n].value = Str(<<>>)
        /\ translatedObj = Undefined
        /\ outputFile = NotWritten

\* C17's case: the prompt was shown for a tree with keys and declined
C17_Witness ==
    /\ askForConfirmation
    /\ confirmAnswer = "no"
    /\ pc = "returned"
    /\ cache # <<>>

\* the place in leaves of the first non-empty string leaf with this key,
\* 0 when there is none
FirstPos(leaves, key) ==
    LET at == {n \in 1..Len(leaves) :
                  /\ leaves[n].type = "string"
                  /\ leaves[n].text # <<>>
                  /\ KeyOf(leaves[n].text) = key}
    IN  IF at = {} THEN 0
        ELSE CHOOSE n \in at : \A m \in at : n <= m

\* for each key of the batches, in their order, the place where the Collect
\* pass first met it
DiscoveryPos ==
    LET leaves == InputLeaves
        K == Concatenated(batches)
    IN  [p \in 1..Len(K) |-> FirstPos(leaves, K[p])]

\* C18 as stated: the keys stand in the batches in the order in which the
\* Collect pass first met them, integer-like texts included.
C18_DiscoveryOrder ==
    BatchesBuilt =>
        LET pos == DiscoveryPos
        IN  \A p, q \in DOMAIN pos :
                p < q => (0 < pos[p] /\ pos[p] < pos[q])

\* C18, amended: the keys stand in the batches in the order of
\* Object.keys(cache): the keys that are array indices come first, in
\* ascending numeric order, then the other keys in the order in which the
\* Collect pass first met them.
C18_ObjectKeysOrder ==
    BatchesBuilt =>
        LET K == Concatenated(batches)
            pos == DiscoveryPos
        IN  /\ \A p \in DOMAIN pos : pos[p] > 0
            /\ \A p, q \in DOMAIN pos :
                  p < q =>
                      IF IsArrayIndex(K[p]) /\ IsArrayIndex(K[q])
                      THEN IndexValue(K[p]) < IndexValue(K[q])
                      ELSE IF ~IsArrayIndex(K[p]) /\ ~IsArrayIndex(K[q])
                      THEN pos[p] < pos[q]
                      ELSE IsArrayIndex(K[p])

\* C18's case: the batches are built for a tree where an integer-like text
\* was met after the key that follows it in the batch
C18_Witness ==
    /\ BatchesBuilt
    /\ LET K == Concatenated(batches)
           pos == DiscoveryPos
       IN  \E p, q \in DOMAIN pos :
               /\ p < q
               /\ IsArrayIndex(K[p])
               /\ pos[p] > pos[q]

\* C19: the cache and the placeholder records are written only by the
\* Collect pass and by the write-back of a response; the Reconstruct pass
\* and the writing of the file leave both as they are.
C19_ReconstructReadsOnly ==
    [][/\ pc \in {"reconstruct", "write"} =>
             (cache' = cache /\ placeholderMap' = placeholderMap)
       /\ cache' # cache => pc \in {"collect", "awaiting"}
       /\ placeholderMap' # placeholderMap => pc = "collect"]_vars

\* C19's case: Reconstruct has returned a tree built from resolved entries
\* and placeholder records
C19_Witness ==
    /\ pc = "write"
    /\ placeholderMap # <<>>
    /\ \E n \in 1..Len(cache) : cache[n].value # Str(<<>>)
    /\ translatedObj # Undefined

\* C20: without key translation and with every batch answered, Reconstruct
\* never raises the missing-cache-entry error, because the key translate
\* computes for a non-empty string leaf is a key addEntry inserted for it.
C20_PassesAgreeOnKeys ==
    ~translateProperties =>
        /\ error # "EntryNotFound"
        /\ AllAnswered =>
              \A t \in InputTexts : HasOwn(cache, KeyOf(t))

=============================================================================
